---- MODULE Spec2Model ----
(***************************************************************************)
(* Model of src/code/index.py: the Lambda function that handles the        *)
(* termination lifecycle events of an EC2 autoscaling group used with ECS. *)
(*                                                                         *)
(* One invocation of lambdaHandler ("tick") is a sequence of steps, one    *)
(* per external call (EC2 describe_instance_attribute, ECS                 *)
(* list/describe_container_instances, update_container_instances_state,    *)
(* list_tasks, SNS publish, autoscaling complete_lifecycle_action).  The   *)
(* ECS control plane, the SNS topic and the autoscaling hooks are the      *)
(* shared state; every local of the handler lives in the tick's record.    *)
(***************************************************************************)
EXTENDS Integers, Sequences, FiniteSets, TLC

VARIABLES
    tick,       \* tick[t]: the locals and the position of invocation slot t
    channel,    \* SNS topic: the JSON payloads published and not yet delivered
    status,     \* ECS: status[r] of container instance r, "ACTIVE" or "DRAINING"
    tasks,      \* ECS: number of tasks listed on container instance r
    completed,  \* autoscaling: the lifecycle actions completed so far
    machineOf,  \* ECS: machineOf[r], the Ec2InstanceId container instance r registered
    pages,      \* ECS: the pages list_container_instances yields, each a sequence of r
    userData,   \* EC2: the decoded userData of the terminating machine, split in tokens
    faults      \* whether external calls may fail in this behaviour

vars == <<tick, channel, status, tasks, completed, machineOf, pages, userData, faults>>

-----------------------------------------------------------------------------
(* Bounds of the model *)

MaxRecords == 2     \* container instances registered in the cluster, at most
MaxTasks == 1       \* tasks on one container instance, at most
NumSlots == 2       \* invocation slots of the Lambda function

Slots == 1..NumSlots

(* Values *)

None == "None"                  \* Python's None, for string-valued locals
NoDict == <<>>                  \* Python's None, for the dict tmpMsgAppend
Unset == -1                     \* an integer local not assigned yet

Machine == "i-1"                \* the machine of the notification
Machines == {"i-1", "i-2"}
Cluster == "c1"                 \* the one cluster of the control plane
Group == "asg-1"
Hook == "H1"
Terminating == "autoscaling:EC2_INSTANCE_TERMINATING"
Launching == "autoscaling:EC2_INSTANCE_LAUNCHING"

ArnOf(r) == "ci-" \o ToString(r)
RecOf(arn) == CHOOSE r \in 1..Len(machineOf) : ArnOf(r) = arn

-----------------------------------------------------------------------------
(* JSON: json.dumps of a dict with string values and json.loads of it.  A  *)
(* payload is the set of the object's members.                             *)

JsonDumps(message) == {<<k, message[k]>> : k \in DOMAIN message}

JsonLoads(line) ==
    [k \in {p[1] : p \in line} |-> (CHOOSE p \in line : p[1] = k)[2]]

(* dict.update *)
UpdateMutant(message, d) == d

Update(message, d) ==
    [k \in (DOMAIN message) \cup (DOMAIN d) |->
        IF k \in DOMAIN d THEN d[k] ELSE message[k]]

-----------------------------------------------------------------------------
(* The cluster name of the userData: a token is the sequence of its parts  *)
(* around '='; the last token naming ECS_CLUSTER wins, and its second part *)
(* is the cluster name.  A token ECS_CLUSTER without '=' raises IndexError.*)

HasClusterToken(token) == \E i \in 1..Len(token) : token[i] = "ECS_CLUSTER"

RECURSIVE ScanTokens(_, _, _)
ScanTokens(tmpList, i, clusterName) ==
    IF i > Len(tmpList) THEN clusterName
    ELSE IF HasClusterToken(tmpList[i])
         THEN IF Len(tmpList[i]) < 2 THEN "IndexError"
              ELSE ScanTokens(tmpList, i + 1, tmpList[i][2])
         ELSE ScanTokens(tmpList, i + 1, clusterName)

ClusterNameOfMutant(tmpList) == ScanTokens(tmpList, 1, Cluster)

ClusterNameOf(tmpList) == ScanTokens(tmpList, 1, None)

-----------------------------------------------------------------------------
(* The decision of lambdaHandler lines 172-175; find() > -1 is equality    *)
(* over the transitions an autoscaling group sends.                        *)

IsTerminatingMutant(message) == "LifecycleTransition" \in DOMAIN message

IsTerminating(message) ==
    /\ "LifecycleTransition" \in DOMAIN message
    /\ message["LifecycleTransition"] = Terminating

(* The inner loop of checkContainerInstanceTaskStatus, lines 81-113, over  *)
(* the described container instances of one page: the index of the         *)
(* instance it stops at with a match, 0 when it ends without one.          *)

ScanInstancesMutant(insts, i, ec2InstanceId, containerInstanceId) ==
    IF i > Len(insts) THEN 0 ELSE i

RECURSIVE ScanInstances(_, _, _, _)
ScanInstances(insts, i, ec2InstanceId, containerInstanceId) ==
    IF i > Len(insts) THEN 0
    ELSE IF insts[i].Ec2InstanceId = ec2InstanceId THEN i          \* 86-111
    ELSE IF containerInstanceId # None THEN 0                      \* 112-113
    ELSE ScanInstances(insts, i + 1, ec2InstanceId, containerInstanceId)

(* Line 95: the state is requested unless the instance is DRAINING *)
NeedsDrainMutant(containerStatus) == FALSE

NeedsDrain(containerStatus) == containerStatus # "DRAINING"

(* Line 107: the status requested of the container instance found *)
DrainStatusMutant == "ACTIVE"

DrainStatus == "DRAINING"

(* Lines 209-210: an exception of complete_lifecycle_action is printed and *)
(* the handler returns.                                                    *)
CaughtMutant(tk, call) == [tk EXCEPT !.pc = "error", !.failed = call]

Caught(tk, call) == [tk EXCEPT !.pc = "done", !.failed = call]

(* Line 74: the paginator yields every page *)
HasPageMutant(pageIdx) == pageIdx <= 1

HasPage(pageIdx) == pageIdx <= Len(pages)

(* The two results of checkContainerInstanceTaskStatus: lambdaHandler       *)
(* publishes again on the first (line 189) and completes the lifecycle     *)
(* action on the second (line 194).                                        *)
TasksRemain == 1
NoTasks == 0

(* Lines 125-129: the result for the task list read; the test of line 125  *)
(* is true of the empty list.                                              *)
TasksRunningMutant(taskArns) == IF taskArns = {} THEN TasksRemain ELSE Unset

TasksRunning(taskArns) == IF taskArns = {} THEN TasksRemain ELSE NoTasks

(* Line 132: the result when no container instance was found *)
NotFoundResultMutant == TasksRemain

NotFoundResult == NoTasks

-----------------------------------------------------------------------------
(* The initial states *)

RECURSIVE Splits(_)
Splits(s) ==
    IF s = <<>> THEN {<<>>}
    ELSE UNION { { <<SubSeq(s, 1, k)>> \o rest : rest \in Splits(SubSeq(s, k + 1, Len(s))) }
                 : k \in 1..Len(s) }

Ids(n) == [i \in 1..n |-> i]

(* The paginator yields one page, empty, for a cluster without instances *)
PagesOf(n) == IF n = 0 THEN { << <<>> >> } ELSE Splits(Ids(n))

Notifications ==
    { [EC2InstanceId |-> Machine, AutoScalingGroupName |-> Group],
      [EC2InstanceId |-> Machine, AutoScalingGroupName |-> Group,
       LifecycleTransition |-> Launching, LifecycleHookName |-> Hook],
      [EC2InstanceId |-> Machine, AutoScalingGroupName |-> Group,
       LifecycleTransition |-> Terminating, LifecycleHookName |-> Hook] }

UserDatas ==
    { << <<"ECS_CLUSTER", Cluster>>, <<"start">> >>,
      << <<"start">> >>,
      << <<"ECS_CLUSTER">> >> }

(* The locals of a tick.  received, first, seen, taskCount, failed and the  *)
(* n* fields are history: the message as it was delivered, the first       *)
(* container instance matched and the status it was described with, the    *)
(* length of the task list read, the call that raised, and the number of   *)
(* calls made of each kind.                                                *)
Idle ==
    [pc |-> "idle", message |-> NoDict, received |-> NoDict, clusterName |-> None,
     containerInstanceId |-> None, tmpMsgAppend |-> NoDict, pageIdx |-> 1,
     first |-> None, seen |-> None, taskCount |-> Unset, tasksRunning |-> Unset,
     nBoot |-> 0, nList |-> 0, nDescribe |-> 0, nSetDrain |-> 0,
     nListTasks |-> 0, nPublish |-> 0, nComplete |-> 0, failed |-> None]

Init ==
    /\ tick = [t \in Slots |-> Idle]
    /\ \E m \in Notifications : channel = {JsonDumps(m)}
    /\ \E n \in 0..MaxRecords :
        /\ machineOf \in [1..n -> Machines]
        /\ status \in [1..n -> {"ACTIVE", "DRAINING"}]
        /\ tasks \in [1..n -> 0..MaxTasks]
        /\ pages \in PagesOf(n)
    /\ completed = {}
    /\ userData \in UserDatas
    /\ faults \in BOOLEAN

-----------------------------------------------------------------------------
(* Steps of a tick *)

Running(t) == tick[t].pc \notin {"idle", "done", "error"}

Outcomes == IF faults THEN {TRUE, FALSE} ELSE {TRUE}

Raise(tk, call) == [tk EXCEPT !.pc = "error", !.failed = call]

(* lambdaHandler lines 184-194, with the values checkContainerInstanceTaskStatus returned *)
Returned(tk, tasksRunning) ==
    [tk EXCEPT !.tasksRunning = tasksRunning,
               !.message = IF DOMAIN tk.tmpMsgAppend # {}
                           THEN Update(tk.message, tk.tmpMsgAppend)
                           ELSE tk.message,
               !.pc = IF tasksRunning = TasksRemain THEN "publish"
                      ELSE IF tasksRunning = NoTasks THEN "complete"
                      ELSE "done"]

(* Lines 74 and 115-132, after the work on a page: the next page, or the end of the loop *)
NextPage(tk) ==
    IF HasPage(tk.pageIdx + 1)
    THEN [tk EXCEPT !.pageIdx = tk.pageIdx + 1, !.pc = "page"]
    ELSE IF tk.containerInstanceId # None
         THEN [tk EXCEPT !.pc = "listTasks"]
         ELSE Returned(tk, NotFoundResult)

(* The event source invokes lambdaHandler with a message of the topic: lines 135-154 *)
Deliver(t) ==
    /\ ~Running(t)
    /\ \A u \in Slots : u < t => Running(u)
    /\ \E line \in channel :
        /\ channel' = channel \ {line}
        /\ tick' = [tick EXCEPT ![t] =
                        [Idle EXCEPT !.pc = "handlerBoot", !.message = JsonLoads(line),
                                     !.received = JsonLoads(line)]]
    /\ UNCHANGED <<status, tasks, completed, machineOf, pages, userData, faults>>

(* lambdaHandler lines 156-183: describe_instance_attribute, the cluster name, the filter *)
HandlerDescribeAttribute(t) ==
    /\ tick[t].pc = "handlerBoot"
    /\ \E ok \in Outcomes :
        LET tk == [tick[t] EXCEPT !.nBoot = @ + 1] IN
        tick' = [tick EXCEPT ![t] =
            IF ~ok THEN Raise(tk, "describe_instance_attribute")
            ELSE IF ClusterNameOf(userData) = "IndexError" THEN Raise(tk, "IndexError")
            ELSE IF IsTerminating(tk.message) THEN [tk EXCEPT !.pc = "checkBoot"]
            ELSE [tk EXCEPT !.pc = "done"]]
    /\ UNCHANGED <<channel, status, tasks, completed, machineOf, pages, userData, faults>>

(* checkContainerInstanceTaskStatus lines 51-73 *)
CheckDescribeAttribute(t) ==
    /\ tick[t].pc = "checkBoot"
    /\ \E ok \in Outcomes :
        LET tk == [tick[t] EXCEPT !.nBoot = @ + 1] IN
        tick' = [tick EXCEPT ![t] =
            IF ~ok THEN Raise(tk, "describe_instance_attribute")
            ELSE IF ClusterNameOf(userData) = "IndexError" THEN Raise(tk, "IndexError")
            ELSE [tk EXCEPT !.clusterName = ClusterNameOf(userData), !.pc = "page"]]
    /\ UNCHANGED <<channel, status, tasks, completed, machineOf, pages, userData, faults>>

(* Lines 74-103 and 111-113: one page of list_container_instances, its        *)
(* describe_container_instances, and the loop over the described instances up *)
(* to the request of line 104.  A cluster name None is refused by the client. *)
ListAndDescribe(t) ==
    /\ tick[t].pc = "page"
    /\ \E out \in {"ok"} \cup (IF faults THEN {"list", "describe"} ELSE {}) :
        LET tk0 == tick[t]
            insts == [i \in 1..Len(pages[tk0.pageIdx]) |->
                        LET r == pages[tk0.pageIdx][i] IN
                        [containerInstanceArn |-> ArnOf(r),
                         Ec2InstanceId |-> machineOf[r],
                         status |-> status[r]]]
            i == ScanInstances(insts, 1, tk0.message["EC2InstanceId"],
                               tk0.containerInstanceId)
        IN
        tick' = [tick EXCEPT ![t] =
            IF tk0.clusterName # Cluster \/ out = "list"
            THEN Raise([tk0 EXCEPT !.nList = @ + 1], "list_container_instances")
            ELSE IF out = "describe"
            THEN Raise([tk0 EXCEPT !.nList = @ + 1, !.nDescribe = @ + 1],
                       "describe_container_instances")
            ELSE LET tk == [tk0 EXCEPT !.nList = @ + 1, !.nDescribe = @ + 1] IN
                 IF i = 0 THEN NextPage(tk)
                 ELSE LET found == [tk EXCEPT
                                      !.containerInstanceId = insts[i].containerInstanceArn,
                                      !.first = IF tk.first = None
                                                THEN insts[i].containerInstanceArn ELSE @,
                                      !.seen = IF tk.first = None
                                               THEN insts[i].status ELSE @]
                      IN IF NeedsDrain(insts[i].status)
                         THEN [found EXCEPT !.pc = "update"]
                         ELSE NextPage([found EXCEPT !.tmpMsgAppend =
                                  [containerInstanceId |-> found.containerInstanceId]])]
    /\ UNCHANGED <<channel, status, tasks, completed, machineOf, pages, userData, faults>>

(* Lines 104-111: update_container_instances_state of the instance found *)
UpdateState(t) ==
    /\ tick[t].pc = "update"
    /\ \E ok \in Outcomes :
        LET tk == [tick[t] EXCEPT !.nSetDrain = @ + 1] IN
        IF ok
        THEN /\ status' = [status EXCEPT ![RecOf(tk.containerInstanceId)] = DrainStatus]
             /\ tick' = [tick EXCEPT ![t] =
                    NextPage([tk EXCEPT !.tmpMsgAppend =
                        [containerInstanceId |-> tk.containerInstanceId]])]
        ELSE /\ status' = status
             /\ tick' = [tick EXCEPT ![t] = Raise(tk, "update_container_instances_state")]
    /\ UNCHANGED <<channel, tasks, completed, machineOf, pages, userData, faults>>

(* Lines 117-129: list_tasks on the instance found, and the result *)
ListTasks(t) ==
    /\ tick[t].pc = "listTasks"
    /\ \E ok \in Outcomes :
        LET tk == [tick[t] EXCEPT !.nListTasks = @ + 1]
            taskArns == 1..tasks[RecOf(tk.containerInstanceId)]
        IN
        tick' = [tick EXCEPT ![t] =
            IF ~ok THEN Raise(tk, "list_tasks")
            ELSE Returned([tk EXCEPT !.taskCount = Cardinality(taskArns)],
                          TasksRunning(taskArns))]
    /\ UNCHANGED <<channel, status, tasks, completed, machineOf, pages, userData, faults>>

(* Lines 189-192 and publishToSNS, lines 30-42 *)
PublishToSNS(t) ==
    /\ tick[t].pc = "publish"
    /\ \E ok \in Outcomes :
        LET tk == [tick[t] EXCEPT !.nPublish = @ + 1] IN
        IF ok
        THEN /\ channel' = channel \cup {JsonDumps(tk.message)}
             /\ tick' = [tick EXCEPT ![t] = [tk EXCEPT !.pc = "done"]]
        ELSE /\ channel' = channel
             /\ tick' = [tick EXCEPT ![t] = Raise(tk, "publish")]
    /\ UNCHANGED <<status, tasks, completed, machineOf, pages, userData, faults>>

(* Lines 194-210: complete_lifecycle_action, any exception of it printed *)
CompleteLifecycle(t) ==
    /\ tick[t].pc = "complete"
    /\ \E ok \in Outcomes :
        LET tk == [tick[t] EXCEPT !.nComplete = @ + 1] IN
        IF ok
        THEN /\ completed' = completed \cup
                    {[LifecycleHookName |-> tk.message["LifecycleHookName"],
                      AutoScalingGroupName |-> tk.message["AutoScalingGroupName"],
                      InstanceId |-> tk.message["EC2InstanceId"]]}
             /\ tick' = [tick EXCEPT ![t] = [tk EXCEPT !.pc = "done"]]
        ELSE /\ completed' = completed
             /\ tick' = [tick EXCEPT ![t] = Caught(tk, "complete_lifecycle_action")]
    /\ UNCHANGED <<channel, status, tasks, machineOf, pages, userData, faults>>

(* The cluster: a task of a container instance stops *)
TaskStop(r) ==
    /\ tasks[r] > 0
    /\ tasks' = [tasks EXCEPT ![r] = @ - 1]
    /\ UNCHANGED <<tick, channel, status, completed, machineOf, pages, userData, faults>>

(* One step of the invocation in slot t *)
Step(t) ==
    \/ HandlerDescribeAttribute(t)
    \/ CheckDescribeAttribute(t)
    \/ ListAndDescribe(t)
    \/ UpdateState(t)
    \/ ListTasks(t)
    \/ PublishToSNS(t)
    \/ CompleteLifecycle(t)

Next ==
    \/ \E t \in Slots : Deliver(t)
    \/ \E t \in Slots : HandlerDescribeAttribute(t)
    \/ \E t \in Slots : CheckDescribeAttribute(t)
    \/ \E t \in Slots : ListAndDescribe(t)
    \/ \E t \in Slots : UpdateState(t)
    \/ \E t \in Slots : ListTasks(t)
    \/ \E t \in Slots : PublishToSNS(t)
    \/ \E t \in Slots : CompleteLifecycle(t)
    \/ \E r \in DOMAIN tasks : TaskStop(r)

Spec == Init /\ [][Next]_vars

(* An invocation runs to its end, and the topic delivers what was published *)
LiveSpec ==
    /\ Spec
    /\ \A t \in Slots : WF_vars(Step(t)) /\ WF_vars(Deliver(t))

(* The event source delivers a message twice: while one tick runs alone and *)
(* the topic is empty, lambdaHandler is invoked once more with the message  *)
(* that tick received (lines 135-154).                                      *)
Redeliver(t) ==
    /\ ~Running(t)
    /\ \A u \in Slots : u < t => Running(u)
    /\ channel = {}
    /\ \E u \in Slots :
        /\ Running(u)
        /\ \A v \in Slots : Running(v) => v = u
        /\ tick' = [tick EXCEPT ![t] =
                [Idle EXCEPT !.pc = "handlerBoot",
                             !.message = JsonLoads(JsonDumps(tick[u].received)),
                             !.received = JsonLoads(JsonDumps(tick[u].received))]]
    /\ UNCHANGED <<channel, status, tasks, completed, machineOf, pages, userData, faults>>

NextDup ==
    \/ Next
    \/ \E t \in Slots : Redeliver(t)

(* A termination start for a machine whose userData names the cluster, in a *)
(* cluster where no call fails; the tasks of other machines, which no tick  *)
(* reads, are left out.                                                     *)
InitDup ==
    /\ Init
    /\ \A line \in channel : IsTerminating(JsonLoads(line))
    /\ ClusterNameOf(userData) = Cluster
    /\ ~faults
    /\ \A r \in DOMAIN tasks : machineOf[r] # Machine => tasks[r] = 0

(* Delivery at least once and in any order: two ticks may run at once *)
SpecDup == InitDup /\ [][NextDup]_vars

-----------------------------------------------------------------------------
(* Vocabulary of the properties *)

(* Slot t holds a tick for a termination-start notification *)
TerminationTick(t) ==
    /\ tick[t].pc # "idle"
    /\ "LifecycleTransition" \in DOMAIN tick[t].message
    /\ tick[t].message["LifecycleTransition"] = Terminating

(* Slot t holds a tick for a notification that is no termination start *)
OtherTick(t) ==
    /\ tick[t].pc # "idle"
    /\ \/ "LifecycleTransition" \notin DOMAIN tick[t].message
       \/ tick[t].message["LifecycleTransition"] # Terminating

(* The container instances registered for the machine of the notification *)
Registered == {r \in DOMAIN machineOf : machineOf[r] = Machine}

(* The tick of slot t is past the loop over the pages *)
PastPages(t) == tick[t].pc \in {"listTasks", "publish", "complete", "done"}

-----------------------------------------------------------------------------
(* C1: a tick that found the node and read a non-empty task list of it     *)
(* never calls complete_lifecycle_action.                                  *)
C1_NoCompletionWithLiveTasks ==
    \A t \in Slots :
        (TerminationTick(t) /\ tick[t].taskCount > 0) => tick[t].nComplete = 0

(* C2: a tick that found the node and read an empty task list of it, and   *)
(* in which no call failed, publishes nothing and ends with exactly one    *)
(* complete_lifecycle_action call.                                         *)
C2_CompletionOnceWhenDrained ==
    \A t \in Slots :
        (TerminationTick(t) /\ tick[t].taskCount = 0 /\ tick[t].failed = None)
            => /\ tick[t].nPublish = 0
               /\ tick[t].pc # "publish"
               /\ tick[t].pc = "done" => tick[t].nComplete = 1

(* C3: with the machine registered, the cluster name resolved and no call  *)
(* failing, if the tasks of the machine's node are eventually gone for     *)
(* good, then eventually the hook is completed and no tick runs or is      *)
(* pending any more.                                                       *)
C3_Registered ==
    /\ ~faults
    /\ ClusterNameOf(userData) = Cluster
    /\ Registered # {}
    /\ \E line \in channel : IsTerminating(JsonLoads(line))

C3_Drained == \A r \in Registered : tasks[r] = 0

C3_Settled ==
    /\ completed # {}
    /\ channel = {}
    /\ \A t \in Slots : ~Running(t)

C3_EventualCompletion ==
    (C3_Registered /\ <>[]C3_Drained) => <>[]C3_Settled

(* C4: a tick without a failed call that found the one node of the machine *)
(* ACTIVE and read a non-empty task list of it ends having requested       *)
(* DRAINING once, published once and completed nothing.                    *)
C4_DeferOnRemainingTasks ==
    \A t \in Slots :
        (/\ TerminationTick(t)
         /\ tick[t].pc = "done"
         /\ tick[t].failed = None
         /\ Cardinality(Registered) = 1
         /\ tick[t].seen = "ACTIVE"
         /\ tick[t].taskCount > 0)
            => /\ tick[t].nSetDrain = 1
               /\ tick[t].nPublish = 1
               /\ tick[t].nComplete = 0

(* C5: no step of a tick for a notification that is no termination start   *)
(* changes the container instances, the topic or the completed hooks, and  *)
(* such a tick requests no state, publishes nothing and completes nothing. *)
C5_NoMutationUnlessTerminating ==
    [][\A t \in Slots :
        (OtherTick(t) /\ Running(t) /\ tick'[t] # tick[t])
            => /\ status' = status
               /\ tasks' = tasks
               /\ channel' = channel
               /\ completed' = completed
               /\ tick'[t].nSetDrain = 0
               /\ tick'[t].nPublish = 0
               /\ tick'[t].nComplete = 0]_vars

C5_Witness ==
    \E t \in Slots :
        /\ tick[t].pc = "done"
        /\ "LifecycleTransition" \in DOMAIN tick[t].message
        /\ tick[t].message["LifecycleTransition"] = Launching
        /\ tick[t].nBoot = 1
        /\ \E r \in Registered : status[r] = "ACTIVE"

(* C6: a tick for a notification without LifecycleTransition makes no      *)
(* external call at all.                                                   *)
C6_NoCallWithoutTransition ==
    \A t \in Slots :
        (tick[t].pc # "idle" /\ "LifecycleTransition" \notin DOMAIN tick[t].message)
            => /\ tick[t].nBoot = 0
               /\ tick[t].nList = 0
               /\ tick[t].nDescribe = 0
               /\ tick[t].nSetDrain = 0
               /\ tick[t].nListTasks = 0
               /\ tick[t].nPublish = 0
               /\ tick[t].nComplete = 0

(* C7: in a tick for a termination start with no container instance of the *)
(* machine on any page, no state is requested and nothing is published;    *)
(* once every page was listed and described the tick completes the hook,   *)
(* exactly once, and does not end in an error.                             *)
C7_NotRegisteredCompletes ==
    \A t \in Slots :
        (TerminationTick(t) /\ Registered = {})
            => /\ tick[t].nSetDrain = 0
               /\ tick[t].nPublish = 0
               /\ tick[t].nComplete <= 1
               /\ (tick[t].nDescribe = Len(pages)
                   /\ tick[t].failed # "describe_container_instances")
                    => /\ tick[t].pc \in {"complete", "done"}
                       /\ tick[t].pc = "done" => tick[t].nComplete = 1

C7_Witness ==
    \E t \in Slots :
        /\ TerminationTick(t)
        /\ Registered = {}
        /\ Len(pages) >= 2
        /\ tick[t].pc = "done"
        /\ tick[t].nDescribe = Len(pages)
        /\ tick[t].nComplete = 1
        /\ completed # {}

(* C8: when a tick that found a container instance of the machine is about *)
(* to call complete_lifecycle_action, or has called it, the instance it    *)
(* found is DRAINING: it was described DRAINING, or the tick's request     *)
(* for DRAINING succeeded before.                                          *)
C8_DrainingBeforeCompletion ==
    \A t \in Slots :
        (/\ tick[t].containerInstanceId # None
         /\ tick[t].pc = "complete" \/ tick[t].nComplete > 0)
            => /\ status[RecOf(tick[t].containerInstanceId)] = "DRAINING"
               /\ status[RecOf(tick[t].first)] = "DRAINING"
               /\ tick[t].seen = "DRAINING" \/ tick[t].nSetDrain >= 1

C8_Witness ==
    \E t \in Slots :
        /\ tick[t].pc = "complete"
        /\ tick[t].containerInstanceId # None
        /\ tick[t].seen = "ACTIVE"
        /\ tick[t].nSetDrain = 1

(* C9: a tick that is past the pages and found a container instance has    *)
(* requested DRAINING not at all when the instance found first was         *)
(* described DRAINING, and exactly once when it was described ACTIVE.      *)
C9_SingleDrainRequest ==
    \A t \in Slots :
        (TerminationTick(t) /\ PastPages(t) /\ tick[t].first # None)
            => /\ tick[t].seen = "DRAINING" => tick[t].nSetDrain = 0
               /\ tick[t].seen = "ACTIVE" => tick[t].nSetDrain = 1

(* C10: whatever the pages, a tick for a termination start that is past    *)
(* the pages with a container instance of the machine registered has found *)
(* a container instance of that machine.                                   *)
C10_LocatorFindsAcrossPages ==
    \A t \in Slots :
        (TerminationTick(t) /\ PastPages(t) /\ Registered # {})
            => /\ tick[t].containerInstanceId # None
               /\ RecOf(tick[t].containerInstanceId) \in Registered

C10_Witness ==
    \E t \in Slots :
        /\ TerminationTick(t)
        /\ tick[t].pc = "listTasks"
        /\ Len(pages) >= 2
        /\ \A i \in DOMAIN pages[1] : pages[1][i] \notin Registered
        /\ tick[t].containerInstanceId # None

(* C11: a tick whose message was delivered with a containerInstanceId      *)
(* attached lists and describes no container instances.                    *)
C11_CarriedIdSkipsLocator ==
    \A t \in Slots :
        (tick[t].pc # "idle" /\ "containerInstanceId" \in DOMAIN tick[t].received)
            => /\ tick[t].nList = 0
               /\ tick[t].nDescribe = 0

(* C12: the message a tick publishes holds every field of the message the  *)
(* tick received, with the value received, and the containerInstanceId the *)
(* tick found; every message of the topic is for the machine, the group,   *)
(* the transition and the hook of the first notification.                  *)
C12_Carries(line, t) ==
    LET m == JsonLoads(line) IN
    /\ \A k \in DOMAIN tick[t].received :
            k \in DOMAIN m /\ m[k] = tick[t].received[k]
    /\ "containerInstanceId" \in DOMAIN m
    /\ m["containerInstanceId"] = tick[t].containerInstanceId
    /\ m["EC2InstanceId"] = Machine
    /\ m["AutoScalingGroupName"] = Group
    /\ m["LifecycleTransition"] = Terminating
    /\ m["LifecycleHookName"] = Hook

C13_ExternalCalls ==
    {"describe_instance_attribute", "list_container_instances",
     "describe_container_instances", "update_container_instances_state",
     "list_tasks", "publish", "complete_lifecycle_action"}

C13_NoExceptionEscapes ==
    \A t \in Slots :
        (faults /\ ClusterNameOf(userData) = Cluster /\ tick[t].failed \in C13_ExternalCalls)
            => tick[t].pc # "error"

(* C14: a tick whose complete_lifecycle_action call failed has ended        *)
(* normally with that one completion call and no publish, and no message   *)
(* is left on the topic and no tick is running.                            *)
C14_CompletionFailureSwallowed ==
    \A t \in Slots :
        tick[t].failed = "complete_lifecycle_action"
            => /\ tick[t].pc = "done"
               /\ tick[t].nComplete = 1
               /\ tick[t].nPublish = 0
               /\ channel = {}
               /\ \A u \in Slots : ~Running(u)

C14_Witness ==
    \E t \in Slots :
        /\ tick[t].failed = "complete_lifecycle_action"
        /\ tick[t].pc = "done"
        /\ completed = {}

(* C15: the container instance a tick past the pages goes on with is the   *)
(* first one registered for the machine in the order of the pages.         *)
C15_FirstRegistered ==
    CHOOSE r \in Registered : \A q \in Registered : r <= q

C15_LocatorReturnsFirstMatch ==
    \A t \in Slots :
        (TerminationTick(t) /\ PastPages(t) /\ Registered # {})
            => tick[t].containerInstanceId = ArnOf(C15_FirstRegistered)

(* C16: a tick for a termination start on a machine whose userData names   *)
(* no cluster requests no state, publishes nothing and completes nothing.  *)
C16_NoClusterToken ==
    \A i \in DOMAIN userData :
        \A j \in DOMAIN userData[i] : userData[i][j] # "ECS_CLUSTER"

C17_BootConfigOnce ==
    \A t \in Slots : tick[t].nBoot <= 1

C19_Targets ==
    {r \in Registered :
        \/ r = C15_FirstRegistered
        \/ \E p \in DOMAIN pages : Len(pages[p]) > 0 /\ pages[p][1] = r}

C19_TargetsDrained ==
    \A t \in Slots :
        (TerminationTick(t) /\ PastPages(t))
            => \A r \in C19_Targets : status[r] = "DRAINING"

C19_StatusStep ==
    \A r \in DOMAIN status :
        status'[r] # status[r]
            => /\ status[r] = "ACTIVE"
               /\ status'[r] = "DRAINING"
               /\ r \in C19_Targets

C19_DuplicateTicksSafe ==
    []C19_TargetsDrained /\ [][C19_StatusStep]_vars

C19_Witness ==
    \E t, u \in Slots :
        /\ t # u
        /\ tick[t].received = tick[u].received
        /\ tick[t].pc = "done" /\ tick[u].pc = "done"
        /\ tick[t].nSetDrain = 1 /\ tick[u].nSetDrain = 1
        /\ Cardinality(Registered) = 1

(* C20: a step of a tick changes the status of container instances of the  *)
(* tick's machine only, requests DRAINING only of such an instance, and    *)
(* completes only the lifecycle action of the hook, the group and the      *)
(* machine of the message it received.                                     *)
C20_OwnMachineOnly ==
    [][\A t \in Slots :
        (Running(t) /\ tick'[t] # tick[t])
            => /\ \A r \in DOMAIN status :
                    status'[r] # status[r]
                        => machineOf[r] = tick[t].received["EC2InstanceId"]
               /\ tick'[t].pc = "update"
                    => machineOf[RecOf(tick'[t].containerInstanceId)]
                            = tick[t].received["EC2InstanceId"]
               /\ tasks' = tasks
               /\ IF completed' = completed THEN TRUE
                  ELSE completed' \ completed =
                        {[LifecycleHookName |-> tick[t].received["LifecycleHookName"],
                          AutoScalingGroupName |-> tick[t].received["AutoScalingGroupName"],
                          InstanceId |-> tick[t].received["EC2InstanceId"]]}]_vars

C20_Witness ==
    \E t \in Slots :
        /\ tick[t].pc = "done"
        /\ tick[t].nSetDrain = 1
        /\ completed # {}
        /\ \E r \in DOMAIN status : machineOf[r] # Machine /\ status[r] = "ACTIVE"

====
